---------------------------- MODULE Spec2Model ----------------------------
(***************************************************************************)
(* A model of kibana/manager.py (class KibanaManager): the lazily          *)
(* connected Elasticsearch client, put/delete of single objects and of     *)
(* collections, the search by type, the JSON files and the dashboard       *)
(* traversal get_dashboard_full.                                           *)
(*                                                                         *)
(* Python values are tagged tuples, so that None, "", {} and [] stay       *)
(* distinct: <<"none">>, <<"str", letters>>, <<"dict", f>>, <<"list", s>>. *)
(* A string is a sequence of letters; a letter is a TLA+ string (a word    *)
(* such as "dashboard" counts as one letter, the JSON punctuation marks    *)
(* are letters of their own). Dictionary keys are one-letter strings and   *)
(* are kept as that letter.                                                *)
(***************************************************************************)
EXTENDS Integers, Sequences, FiniteSets, TLC

VARIABLES
    store,      \* the backend's documents: a set of hits (_index, _type, _id, _source)
    indices,    \* the names of the indices that exist in the backend
    up,         \* whether the backend answers (FALSE: every request raises)
    es,         \* self.es: None or the client handle
    files,      \* the directory: file name -> text written
    call,       \* the last method called on the manager, with its argument
    ret,        \* what that call returned or raised
    pc,         \* position of the running collection loop or scenario
    todo,       \* elements the running loop has still to process
    done,       \* elements the running loop has processed without an exception
    store0,     \* the backend's documents when the last call began
    saved,      \* the objects the client keeps from its export
    phase       \* how far the client is in its export, delete and re-import

vars == <<store, indices, up, es, files, call, ret, pc, todo, done, store0, saved, phase>>

-----------------------------------------------------------------------------
(* Python values *)

None == <<"none">>
Str(cs) == <<"str", cs>>
Dict(f) == <<"dict", f>>
List(s) == <<"list", s>>

\* The string made of the single letter w; "" is Str(<<>>).
W(w) == Str(<<w>>)
EmptyStr == Str(<<>>)
EmptyDict == Dict(<<>>)

IsNone(v) == v[1] = "none"
IsStr(v) == v[1] = "str"
IsDict(v) == v[1] = "dict"
IsList(v) == v[1] = "list"

\* d[k] for a dictionary value d; Keys(d) are the keys a d[k] does not raise KeyError on.
Keys(d) == DOMAIN d[2]
Item(d, k) == d[2][k]
\* d[k] = v
SetItem(d, k, v) == Dict([x \in Keys(d) \cup {k} |-> IF x = k THEN v ELSE d[2][x]])
\* The dictionary key that a one-letter string value names.
KeyOf(s) == s[2][1]

\* self.index and self.max_hits as __init__ sets them.
index == W(".kibana")
max_hits == 9999

-----------------------------------------------------------------------------
(* json.dumps(obj, sort_keys=True, indent=4, separators=(',', ': ')) *)

\* The order of the letters used as dictionary keys (Python compares code points).
KeyOrder == <<"_id", "_index", "_source", "_type", "a", "b", "c",
              "id", "panelsJSON", "title">>
KeyRank(k) == CHOOSE i \in 1..Len(KeyOrder) : KeyOrder[i] = k
MinKey(ks) == CHOOSE k \in ks : \A o \in ks : KeyRank(k) <= KeyRank(o)

RECURSIVE SortedKeys(_)
SortedKeys(ks) ==
    IF ks = {} THEN <<>>
    ELSE <<MinKey(ks)>> \o SortedKeys(ks \ {MinKey(ks)})

RECURSIVE Escape(_)
Escape(cs) ==
    IF cs = <<>> THEN <<>>
    ELSE (IF Head(cs) \in {"\"", "\\"} THEN <<"\\", Head(cs)>>
          ELSE IF Head(cs) = "\n" THEN <<"\\", "n">>
          ELSE <<Head(cs)>>) \o Escape(Tail(cs))

RECURSIVE Indent(_)
Indent(level) == IF level = 0 THEN <<>> ELSE <<"    ">> \o Indent(level - 1)

RECURSIVE Dumps(_, _)
RECURSIVE DumpItems(_, _, _)
RECURSIVE DumpElems(_, _)
DumpItems(d, ks, level) ==
    IF ks = <<>> THEN <<>>
    ELSE Indent(level) \o <<"\"">> \o Escape(<<Head(ks)>>) \o <<"\"", ":", " ">>
         \o Dumps(Item(d, Head(ks)), level)
         \o (IF Len(ks) > 1 THEN <<",", "\n">> ELSE <<>>)
         \o DumpItems(d, Tail(ks), level)
DumpElems(s, level) ==
    IF s = <<>> THEN <<>>
    ELSE Indent(level) \o Dumps(Head(s), level)
         \o (IF Len(s) > 1 THEN <<",", "\n">> ELSE <<>>)
         \o DumpElems(Tail(s), level)
Dumps(v, level) ==
    CASE IsNone(v) -> <<"null">>
      [] IsStr(v)  -> <<"\"">> \o Escape(v[2]) \o <<"\"">>
      [] IsDict(v) ->
            IF Keys(v) = {} THEN <<"{", "}">>
            ELSE <<"{", "\n">> \o DumpItems(v, SortedKeys(Keys(v)), level + 1)
                 \o <<"\n">> \o Indent(level) \o <<"}">>
      [] IsList(v) ->
            IF v[2] = <<>> THEN <<"[", "]">>
            ELSE <<"[", "\n">> \o DumpElems(v[2], level + 1)
                 \o <<"\n">> \o Indent(level) \o <<"]">>

json_dumps(obj) == Dumps(obj, 0)

-----------------------------------------------------------------------------
(* json.loads(text): a recursive-descent parse. Each parser takes the text *)
(* and a position and returns the value read and the position after it.    *)

Whitespace == {" ", "\n", "    "}

RECURSIVE SkipWs(_, _)
SkipWs(t, i) == IF i <= Len(t) /\ t[i] \in Whitespace THEN SkipWs(t, i + 1) ELSE i

\* The letters of a string literal whose opening quote is before position i.
RECURSIVE ParseChars(_, _, _)
ParseChars(t, i, acc) ==
    IF t[i] = "\"" THEN [v |-> acc, i |-> i + 1]
    ELSE IF t[i] = "\\"
         THEN ParseChars(t, i + 2, Append(acc, IF t[i + 1] = "n" THEN "\n" ELSE t[i + 1]))
         ELSE ParseChars(t, i + 1, Append(acc, t[i]))

RECURSIVE ParseValue(_, _)
RECURSIVE ParseMembers(_, _, _)
RECURSIVE ParseElems(_, _, _)
\* After "{" or ",": "key": value, then "," or "}".
ParseMembers(t, i, d) ==
    LET k == ParseChars(t, SkipWs(t, i) + 1, <<>>)
        c == SkipWs(t, k.i)
        v == ParseValue(t, c + 1)
        e == SkipWs(t, v.i)
        d2 == SetItem(d, k.v[1], v.v)
    IN  IF t[e] = "," THEN ParseMembers(t, e + 1, d2)
        ELSE [v |-> d2, i |-> e + 1]
ParseElems(t, i, s) ==
    LET v == ParseValue(t, i)
        e == SkipWs(t, v.i)
        s2 == Append(s, v.v)
    IN  IF t[e] = "," THEN ParseElems(t, e + 1, s2)
        ELSE [v |-> List(s2), i |-> e + 1]
ParseValue(t, i0) ==
    LET i == SkipWs(t, i0)
    IN  CASE t[i] = "null" -> [v |-> None, i |-> i + 1]
          [] t[i] = "\""   -> LET r == ParseChars(t, i + 1, <<>>)
                              IN  [v |-> Str(r.v), i |-> r.i]
          [] t[i] = "{"    -> IF t[SkipWs(t, i + 1)] = "}"
                              THEN [v |-> EmptyDict, i |-> SkipWs(t, i + 1) + 1]
                              ELSE ParseMembers(t, i + 1, EmptyDict)
          [] t[i] = "["    -> IF t[SkipWs(t, i + 1)] = "]"
                              THEN [v |-> List(<<>>), i |-> SkipWs(t, i + 1) + 1]
                              ELSE ParseElems(t, i + 1, <<>>)

json_loads(text) == ParseValue(text, 1).v

-----------------------------------------------------------------------------
(* The Elasticsearch client, as manager.py uses it. A hit is the dictionary *)
(* {_index, _type, _id, _source}; (_index, _type, _id) identifies it.       *)

Hit(i, t, id, src) == Dict([_index |-> i, _type |-> t, _id |-> id, _source |-> src])

Returned(v) == <<"return", v>>
Raised(exc, msg) == <<"raise", exc, msg>>
IsReturn(r) == r[1] = "return"
IsRaise(r) == r[1] = "raise"

SameDoc(h, i, id, t) ==
    Item(h, "_index") = i /\ Item(h, "_id") = id /\ Item(h, "_type") = t

\* self.es.indices.create(index=..., ignore=400): an existing index is left alone.
es_indices_create(ix, name) == ix \cup {name}

\* es_index as a create that leaves a document already stored under the key.
es_index_keeps_old(st, i, id, t, body) ==
    IF \E h \in st : SameDoc(h, i, id, t) THEN st ELSE st \cup {Hit(i, t, id, body)}

\* self.es.index(index, id, doc_type, body): the document replaces any stored
\* under the same (index, id, doc_type).
es_index(st, i, id, t, body) ==
    {h \in st : ~SameDoc(h, i, id, t)} \cup {Hit(i, t, id, body)}

\* self.es.delete(index, id, doc_type); the client raises NotFoundError when
\* nothing is stored under (index, id, doc_type).
es_delete_found(st, i, id, t) == \E h \in st : SameDoc(h, i, id, t)
es_delete(st, i, id, t) == {h \in st : ~SameDoc(h, i, id, t)}

\* self.es.search(index, body=query) with the type filter of get_objects: the
\* possible lists of hits, at most `size` of the documents of that type.
Min(a, b) == IF a < b THEN a ELSE b
es_search(st, i, search_val, size) ==
    LET m == {h \in st : Item(h, "_index") = i /\ Item(h, "_type") = search_val}
    IN  {hs \in SUBSET m : Cardinality(hs) = Min(Cardinality(m), size)}

\* connect_es: the handle is made once.
connect_es(conn) == IF conn # None THEN conn ELSE W("Elasticsearch")

-----------------------------------------------------------------------------
(* get_objects, lines 165-188: one entry per hit, keyed by the hit's _id.   *)

\* objects_of without line 187: the _source of the hit is not copied.
objects_of_without_source(hits) ==
    Dict([k \in {KeyOf(Item(h, "_id")) : h \in hits} |->
            LET doc == CHOOSE h \in hits : KeyOf(Item(h, "_id")) = k
            IN  Dict([_index  |-> index,
                      _type   |-> Item(doc, "_type"),
                      _id     |-> Item(doc, "_id")])])

objects_of(hits) ==
    Dict([k \in {KeyOf(Item(h, "_id")) : h \in hits} |->
            LET doc == CHOOSE h \in hits : KeyOf(Item(h, "_id")) = k
            IN  Dict([_index  |-> index,
                      _type   |-> Item(doc, "_type"),
                      _id     |-> Item(doc, "_id"),
                      _source |-> Item(doc, "_source")])])

\* What get_objects("type", search_val) returns or raises when the search
\* answers with `hits`.
get_objects(st, ix, isUp, search_val, hits) ==
    IF ~isUp THEN Raised("ConnectionError", None)
    ELSE IF KeyOf(index) \notin ix THEN Raised("NotFoundError", None)
    ELSE Returned(objects_of(hits))

-----------------------------------------------------------------------------
(* get_dashboard_full, lines 208-231 *)

KeyError == <<"KeyError">>

\* for vname, vval in vizs.iteritems(): if vname == panel['id']: objects[vname] = vval
\* (the same loop runs over searches). panel['id'] is evaluated once per entry.
match_loop(objects, panel, found) ==
    IF objects = KeyError \/ Keys(found) = {} THEN objects
    ELSE IF "id" \notin Keys(panel) THEN KeyError
    ELSE LET hit == {k \in Keys(found) : W(k) = Item(panel, "id")}
         IN  Dict([k \in Keys(objects) \cup hit |->
                     IF k \in hit THEN Item(found, k) ELSE Item(objects, k)])

\* for panel in panels: try: ... except KeyError: return {}
RECURSIVE panel_loop(_, _, _, _)
panel_loop(objects, panels, vizs, searches) ==
    IF panels = <<>> THEN objects
    ELSE LET o == match_loop(match_loop(objects, Head(panels), vizs),
                             Head(panels), searches)
         IN  IF o = KeyError THEN EmptyDict
             ELSE panel_loop(o, Tail(panels), vizs, searches)

\* The body of the method once the three searches have returned.
dashboard_full(dboard, dashboards, vizs, searches) ==
    IF ~(\E name \in Keys(dashboards) : W(name) = dboard) THEN Returned(None)
    ELSE LET name == KeyOf(dboard)
             val == Item(dashboards, name)
         IN  IF "panelsJSON" \notin Keys(Item(val, "_source"))
             THEN Raised("KeyError", W("panelsJSON"))
             ELSE Returned(panel_loop(Dict([k \in {name} |-> val]),
                               json_loads(Item(Item(val, "_source"), "panelsJSON")[2])[2],
                               vizs, searches))

get_dashboard_full(st, ix, isUp, dboard, dh, vh, sh) ==
    LET dashboards == get_objects(st, ix, isUp, W("dashboard"), dh)
        vizs == get_objects(st, ix, isUp, W("visualization"), vh)
        searches == get_objects(st, ix, isUp, W("search"), sh)
    IN  IF IsRaise(dashboards) THEN dashboards
        ELSE IF IsRaise(vizs) THEN vizs
        ELSE IF IsRaise(searches) THEN searches
        ELSE dashboard_full(dboard, dashboards[2], vizs[2], searches[2])

-----------------------------------------------------------------------------
(* The calls a client of the manager makes. *)

Types == {W("dashboard"), W("visualization"), W("search")}
Ids == {W("a"), W("b")}

GetObjects(search_val) ==
    /\ pc = "idle"
    /\ \E hits \in es_search(store, index, search_val, max_hits) :
          ret' = get_objects(store, indices, up, search_val, hits)
    /\ es' = connect_es(es)
    /\ call' = <<"get_objects", search_val>>
    /\ store0' = store
    /\ UNCHANGED <<store, indices, up, files, pc, todo, done>>

GetDashboardFull(dboard) ==
    /\ pc = "idle"
    /\ \E dh \in es_search(store, index, W("dashboard"), max_hits),
          vh \in es_search(store, index, W("visualization"), max_hits),
          sh \in es_search(store, index, W("search"), max_hits) :
          ret' = get_dashboard_full(store, indices, up, dboard, dh, vh, sh)
    /\ es' = connect_es(es)
    /\ call' = <<"get_dashboard_full", dboard>>
    /\ store0' = store
    /\ UNCHANGED <<store, indices, up, files, pc, todo, done>>

-----------------------------------------------------------------------------
(* put_object, lines 79-104, and del_object, lines 114-125: the backend, the *)
(* handle and the result after the call.                                     *)

Missing(v) == v = None \/ v = EmptyStr

Outcome(st, ix, conn, r) == [store |-> st, indices |-> ix, es |-> conn, ret |-> r]

\* invalid_put without the check of _source (lines 96-97).
invalid_put_skips_source(obj) ==
    IF Missing(Item(obj, "_index")) THEN W("Invalid Object, no index")
    ELSE IF Missing(Item(obj, "_id")) THEN W("Invalid Object, no _id")
    ELSE IF Missing(Item(obj, "_type")) THEN W("Invalid Object, no _type")
    ELSE None

\* The four checks of lines 90-97, in their order: the message of the first
\* that fails, or None.
invalid_put(obj) ==
    IF Missing(Item(obj, "_index")) THEN W("Invalid Object, no index")
    ELSE IF Missing(Item(obj, "_id")) THEN W("Invalid Object, no _id")
    ELSE IF Missing(Item(obj, "_type")) THEN W("Invalid Object, no _type")
    ELSE IF Missing(Item(obj, "_source")) THEN W("Invalid Object, no _source")
    ELSE None

put_object(obj, st, ix, conn, isUp) ==
    IF invalid_put(obj) # None
    THEN Outcome(st, ix, conn, Raised("Exception", invalid_put(obj)))
    ELSE IF ~isUp
    THEN Outcome(st, ix, connect_es(conn), Raised("ConnectionError", None))
    ELSE Outcome(es_index(st, Item(obj, "_index"), Item(obj, "_id"),
                          Item(obj, "_type"), Item(obj, "_source")),
                 es_indices_create(ix, KeyOf(Item(obj, "_index"))),
                 connect_es(conn),
                 Returned(W("resp")))

del_object(obj, st, ix, conn, isUp) ==
    IF Missing(Item(obj, "_index")) \/ Missing(Item(obj, "_id")) \/ Missing(Item(obj, "_type"))
    THEN Outcome(st, ix, conn, Raised("Exception", W("Invalid Object")))
    ELSE IF ~isUp
    THEN Outcome(st, ix, connect_es(conn), Raised("ConnectionError", None))
    ELSE IF ~es_delete_found(st, Item(obj, "_index"), Item(obj, "_id"), Item(obj, "_type"))
    THEN Outcome(st, ix, connect_es(conn), Raised("NotFoundError", None))
    ELSE Outcome(es_delete(st, Item(obj, "_index"), Item(obj, "_id"), Item(obj, "_type")),
                 ix, connect_es(conn), Returned(None))

Apply(o) ==
    /\ store' = o.store
    /\ indices' = o.indices
    /\ es' = o.es
    /\ ret' = o.ret

PutObject(obj) ==
    /\ pc = "idle"
    /\ Apply(put_object(obj, store, indices, es, up))
    /\ call' = <<"put_object", obj>>
    /\ store0' = store
    /\ UNCHANGED <<up, files, pc, todo, done>>

DelObject(obj) ==
    /\ pc = "idle"
    /\ Apply(del_object(obj, store, indices, es, up))
    /\ call' = <<"del_object", obj>>
    /\ store0' = store
    /\ UNCHANGED <<up, files, pc, todo, done>>

-----------------------------------------------------------------------------
(* put_pkg, put_objects and del_objects, lines 106-112 and 127-129: a loop   *)
(* that calls put_object or del_object on one element after the other. An   *)
(* exception of the call leaves the loop and the method.                     *)

\* The orders in which a for loop may visit `objs`: a list in its own order, a
\* dictionary (iteritems) in an order Python does not promise.
Orders(objs) ==
    IF IsList(objs) THEN {objs[2]}
    ELSE {s \in [1..Cardinality(Keys(objs)) -> {Item(objs, k) : k \in Keys(objs)}] :
            \E b \in [1..Cardinality(Keys(objs)) -> Keys(objs)] :
                /\ \A i, j \in DOMAIN b : i # j => b[i] # b[j]
                /\ \A i \in DOMAIN b : s[i] = Item(objs, b[i])}

LoopMethods == {"put_pkg", "put_objects", "del_objects"}

StartLoop(method, objs) ==
    /\ pc = "idle"
    /\ pc' = "loop"
    /\ todo' \in Orders(objs)
    /\ done' = <<>>
    /\ call' = <<method, objs>>
    /\ ret' = Returned(None)
    /\ store0' = store
    /\ UNCHANGED <<store, indices, up, es, files>>

\* LoopStep with the exception of an element swallowed: the loop goes on.
LoopStepSwallows ==
    /\ pc = "loop"
    /\ todo # <<>>
    /\ LET o == IF call[1] = "del_objects"
                THEN del_object(Head(todo), store, indices, es, up)
                ELSE put_object(Head(todo), store, indices, es, up)
       IN  /\ store' = o.store
           /\ indices' = o.indices
           /\ es' = o.es
           /\ todo' = Tail(todo)
           /\ done' = IF IsRaise(o.ret) THEN done ELSE Append(done, Head(todo))
           /\ UNCHANGED <<pc, ret>>
    /\ UNCHANGED <<up, files, call, store0>>

\* One iteration: the call on the next element; its exception ends the method.
LoopStep ==
    /\ pc = "loop"
    /\ todo # <<>>
    /\ LET o == IF call[1] = "del_objects"
                THEN del_object(Head(todo), store, indices, es, up)
                ELSE put_object(Head(todo), store, indices, es, up)
       IN  /\ store' = o.store
           /\ indices' = o.indices
           /\ es' = o.es
           /\ IF IsRaise(o.ret)
              THEN pc' = "idle" /\ ret' = o.ret /\ UNCHANGED <<todo, done>>
              ELSE /\ todo' = Tail(todo)
                   /\ done' = Append(done, Head(todo))
                   /\ UNCHANGED <<pc, ret>>
    /\ UNCHANGED <<up, files, call, store0>>

\* The loop is over: the method returns None.
LoopReturn ==
    /\ pc = "loop"
    /\ todo = <<>>
    /\ pc' = "idle"
    /\ ret' = Returned(None)
    /\ UNCHANGED <<store, indices, up, es, files, call, todo, done, store0>>

\* The backend becomes unreachable, or reachable again, between two requests.
BackendFlips ==
    /\ up' = ~up
    /\ UNCHANGED <<store, indices, es, files, call, ret, pc, todo, done, store0>>

-----------------------------------------------------------------------------
(* The files, lines 65-70 and 134-149 *)

\* FileName without the id: "%s.json" % obj['_type'].
FileNameOfTypeOnly(obj) == Item(obj, "_type")[2] \o <<".json">>

\* "%s-%s.json" % (obj['_type'], obj['_id'])
FileName(obj) == Item(obj, "_type")[2] \o <<"-">> \o Item(obj, "_id")[2] \o <<".json">>

\* open(filename, 'w') and f.write(output): the file holds output, whatever it held.
write_file(fs, name, text) ==
    [n \in DOMAIN fs \cup {name} |-> IF n = name THEN text ELSE fs[n]]

write_object_to_file(obj, fs) ==
    write_file(fs, FileName(obj), json_dumps(obj) \o <<"\n">>)

RECURSIVE write_objects_to_file(_, _, _)
write_objects_to_file(objects, ks, fs) ==
    IF ks = {} THEN fs
    ELSE LET k == CHOOSE x \in ks : TRUE
         IN  write_objects_to_file(objects, ks \ {k},
                                   write_object_to_file(Item(objects, k), fs))

read_object_from_file(fs, name) == json_loads(fs[name])

WriteObjectsToFile(objects) ==
    /\ pc = "idle"
    /\ files' = write_objects_to_file(objects, Keys(objects), files)
    /\ call' = <<"write_objects_to_file", objects>>
    /\ ret' = Returned(None)
    /\ store0' = store
    /\ UNCHANGED <<store, indices, up, es, pc, todo, done>>

Stay == UNCHANGED <<saved, phase>>

-----------------------------------------------------------------------------
(* Backend contents the queries are run against. *)

MaxPanels == 2

\* A panel descriptor with or without an id, and the panelsJSON text of a list.
Panels == {EmptyDict} \cup {Dict([id |-> i]) : i \in Ids}
PanelLists == UNION {[1..n -> Panels] : n \in 0..MaxPanels}
PanelText(p) ==
    IF "id" \in Keys(p) THEN <<"{", "\"", "id", "\"", ":", "\"">> \o Item(p, "id")[2] \o <<"\"", "}">>
    ELSE <<"{", "}">>
RECURSIVE PanelsText(_)
PanelsText(ps) ==
    IF ps = <<>> THEN <<>>
    ELSE PanelText(Head(ps)) \o (IF Len(ps) > 1 THEN <<",">> ELSE <<>>) \o PanelsText(Tail(ps))
PanelsJSON(ps) == Str(<<"[">> \o PanelsText(ps) \o <<"]">>)

DashboardSources ==
    {Dict([title |-> W("a"), panelsJSON |-> PanelsJSON(ps)]) : ps \in PanelLists}
    \cup {Dict([title |-> W("a")])}
Titled(t) == Dict([title |-> t])

\* Dashboard a with any panel list, dashboard b, and visualizations and searches
\* a and b (ids are unique within a type only); a visualization in another index.
QueryStores ==
    {da \cup db \cup o :
        da \in {{}} \cup {{Hit(index, W("dashboard"), W("a"), s)} : s \in DashboardSources},
        db \in SUBSET {Hit(index, W("dashboard"), W("b"),
                           Dict([title |-> W("b"), panelsJSON |-> PanelsJSON(<<Dict([id |-> W("b")])>>)]))},
        o \in SUBSET ({Hit(index, t, i, Titled(t)) : t \in Types \ {W("dashboard")}, i \in Ids}
                      \cup {Hit(W("logs"), W("visualization"), W("a"), Titled(W("c")))})}

IndicesOf(st) == {KeyOf(Item(h, "_index")) : h \in st}

Init ==
    /\ store \in QueryStores
    /\ indices \in {IndicesOf(store), IndicesOf(store) \cup {KeyOf(index)}}
    /\ up \in BOOLEAN
    /\ es = None
    /\ files = <<>>
    /\ call = <<"__init__", None>>
    /\ ret = Returned(None)
    /\ pc = "idle"
    /\ todo = <<>>
    /\ done = <<>>
    /\ store0 = store
    /\ saved = None
    /\ phase = 0

Next ==
    \/ \E t \in Types : GetObjects(t) /\ Stay
    \/ \E d \in Ids \cup {W("c")} : GetDashboardFull(d) /\ Stay

Spec == Init /\ [][Next]_vars

-----------------------------------------------------------------------------
(* The dashboard traversal and the search by type, under Spec. *)

\* The document get_objects makes of a stored hit.
DocOf(h) == Hit(index, Item(h, "_type"), Item(h, "_id"), Item(h, "_source"))
Stored(t) == {h \in store : Item(h, "_index") = index /\ Item(h, "_type") = t}
Values(d) == {Item(d, k) : k \in Keys(d)}

CalledFull == call[1] = "get_dashboard_full"
TheDashboard == {h \in Stored(W("dashboard")) : Item(h, "_id") = call[2]}
\* The panel list the stored panelsJSON text was written from.
PanelsOf(h) == CHOOSE ps \in PanelLists : PanelsJSON(ps) = Item(Item(h, "_source"), "panelsJSON")
HasPanels(h) == "panelsJSON" \in Keys(Item(h, "_source"))
Referenced(h) == {Item(PanelsOf(h)[i], "id") : i \in {j \in DOMAIN PanelsOf(h) : "id" \in Keys(PanelsOf(h)[j])}}
Malformed(h) == \E i \in DOMAIN PanelsOf(h) : "id" \notin Keys(PanelsOf(h)[i])
Dependencies(h) ==
    {d \in Stored(W("visualization")) \cup Stored(W("search")) : Item(d, "_id") \in Referenced(h)}

\* C1: when dashboard X exists and every panel of it carries an id,
\* get_dashboard_full(X) returns exactly X and every stored visualization and
\* search whose id a panel references, and nothing else.
C1_ClosureIsExact ==
    (CalledFull /\ IsReturn(ret)) =>
        \A h \in TheDashboard :
            (HasPanels(h) /\ ~Malformed(h)) =>
                /\ IsDict(ret[2])
                /\ Values(ret[2]) = {DocOf(h)} \cup {DocOf(d) : d \in Dependencies(h)}

\* C2: get_dashboard_full(X) returns the empty dictionary whenever some panel
\* of dashboard X has no id, whatever else the backend holds.
C2_MalformedPanelGivesEmpty ==
    (CalledFull /\ IsReturn(ret)) =>
        \A h \in TheDashboard :
            (HasPanels(h) /\ Malformed(h)) => ret[2] = EmptyDict

\* C3: get_dashboard_full(X) returns the empty dictionary when no dashboard
\* has id X.
C3_AbsentDashboardGivesEmpty ==
    (CalledFull /\ IsReturn(ret) /\ TheDashboard = {}) => ret[2] = EmptyDict

\* C9: a non-empty result of get_dashboard_full(X) holds, under key X, the
\* dashboard document X, and holds every resolved dependency.
C9_ResultHoldsTheDashboard ==
    (CalledFull /\ IsReturn(ret) /\ IsDict(ret[2]) /\ ret[2] # EmptyDict) =>
        \A h \in TheDashboard :
            /\ KeyOf(call[2]) \in Keys(ret[2])
            /\ Item(ret[2], KeyOf(call[2])) = DocOf(h)
            /\ \A d \in Dependencies(h) : DocOf(d) \in Values(ret[2])

\* C10: get_objects("type", t) returns a dictionary with one entry per stored
\* document of type t in the configured index (at most max_hits of them); each
\* entry's key is its document's _id, its _type is t, its _index is the
\* configured index and its _id and _source are those stored.
C10_ObjectsAreTheHits ==
    (call[1] = "get_objects" /\ IsReturn(ret)) =>
        /\ IsDict(ret[2])
        /\ \A k \in Keys(ret[2]) :
              LET d == Item(ret[2], k)
              IN  /\ Item(d, "_id") = W(k)
                  /\ Item(d, "_type") = call[2]
                  /\ Item(d, "_index") = index
                  /\ \E h \in Stored(call[2]) : d = DocOf(h)
        /\ Cardinality(Keys(ret[2])) = Min(Cardinality(Stored(call[2])), max_hits)
        /\ Cardinality(Keys(ret[2])) <= max_hits

C10_Witness ==
    /\ call[1] = "get_objects"
    /\ IsReturn(ret)
    /\ Cardinality(Keys(ret[2])) = 2
    /\ \E h \in store : Item(h, "_index") # index

-----------------------------------------------------------------------------
(* put_object and del_object on single objects, under SpecWrite. *)

Titles == {Titled(W("a")), Titled(W("b"))}

\* Objects with every field present, None or "", and a source that may be {}.
WriteObjs ==
    {Hit(i, t, id, src) :
        i \in {EmptyStr, index, W("logs")},
        t \in {None, W("visualization")},
        id \in {None, EmptyStr, W("a")},
        src \in {None, EmptyStr, EmptyDict} \cup Titles}

WriteStores ==
    {k \cup l :
        k \in {{}} \cup {{Hit(index, W("visualization"), W("a"), src)} : src \in Titles},
        l \in {{}} \cup {{Hit(W("logs"), W("visualization"), W("a"), src)} : src \in Titles}}

InitWrite ==
    /\ store \in WriteStores
    /\ indices \in {ix \in SUBSET {KeyOf(index), "logs"} : IndicesOf(store) \subseteq ix}
    /\ up \in BOOLEAN
    /\ es = None
    /\ files = <<>>
    /\ call = <<"__init__", None>>
    /\ ret = Returned(None)
    /\ pc = "idle"
    /\ todo = <<>>
    /\ done = <<>>
    /\ store0 = store
    /\ saved = None
    /\ phase = 0

NextWrite ==
    \/ \E obj \in WriteObjs : PutObject(obj) /\ Stay
    \/ \E obj \in WriteObjs : DelObject(obj) /\ Stay

SpecWrite == InitWrite /\ [][NextWrite]_vars

MetaFields == {"_index", "_id", "_type"}
EmptyFields(obj, fields) == {f \in fields : Missing(Item(obj, f))}
MessageNaming(f) ==
    CASE f = "_index"  -> W("Invalid Object, no index")
      [] f = "_id"     -> W("Invalid Object, no _id")
      [] f = "_type"   -> W("Invalid Object, no _type")
      [] f = "_source" -> W("Invalid Object, no _source")
BackendUntouched == es' = es /\ store' = store /\ indices' = indices

C5_EmptyObjectIsRejected ==
    (/\ call[1] = "put_object"
     /\ EmptyFields(call[2], MetaFields) = {}
     /\ Item(call[2], "_source") = EmptyDict) =>
        /\ IsRaise(ret) /\ ret[2] = "Exception"
        /\ store = store0

SameKey(h, obj) == SameDoc(h, Item(obj, "_index"), Item(obj, "_id"), Item(obj, "_type"))
ValidDoc(obj) ==
    /\ EmptyFields(obj, MetaFields) = {}
    /\ IsDict(Item(obj, "_source")) /\ Item(obj, "_source") # EmptyDict

\* C8: put_object of a valid document succeeds whether or not its index or a
\* document with its (_index, _id, _type) exists; the backend then holds that
\* document, nothing else under its key, and every other document as before;
\* putting it again changes nothing.
C8_PutOverwrites ==
    [][(call'[1] = "put_object" /\ ValidDoc(call'[2]) /\ up) =>
          /\ IsReturn(ret')
          /\ store' = {h \in store : ~SameKey(h, call'[2])} \cup {call'[2]}
          /\ indices' = indices \cup {KeyOf(Item(call'[2], "_index"))}
          /\ (call = call' /\ IsReturn(ret)) => (store' = store /\ indices' = indices)]_vars

C8_Witness ==
    /\ call[1] = "put_object"
    /\ ValidDoc(call[2])
    /\ IsReturn(ret)
    /\ call[2] \in store
    /\ \E h \in store0 : SameKey(h, call[2]) /\ h # call[2]

-----------------------------------------------------------------------------
(* put_pkg, put_objects and del_objects, under SpecBulk. *)

MaxPkg == 2

VisA == Hit(index, W("visualization"), W("a"), Titled(W("a")))
VisA2 == Hit(index, W("visualization"), W("a"), Titled(W("b")))
VisB == Hit(index, W("visualization"), W("b"), Titled(W("b")))
NoId == Hit(index, W("visualization"), EmptyStr, Titled(W("a")))
BulkObjs == {VisA, VisA2, VisB, NoId}

\* Packages (lists) of at most MaxPkg objects, and dictionaries name -> object.
Packages == {List(s) : s \in UNION {[1..n -> BulkObjs] : n \in 0..MaxPkg}}
ObjectDicts == {Dict(f) : f \in UNION {[ks -> BulkObjs] : ks \in SUBSET {"a", "b"}}}

InitBulk ==
    /\ store \in SUBSET {VisA, VisB}
    /\ indices = {KeyOf(index)}
    /\ up \in BOOLEAN
    /\ es = None
    /\ files = <<>>
    /\ call = <<"__init__", None>>
    /\ ret = Returned(None)
    /\ pc = "idle"
    /\ todo = <<>>
    /\ done = <<>>
    /\ store0 = store
    /\ saved = None
    /\ phase = 0

NextBulk ==
    \/ \E objs \in Packages : StartLoop("put_pkg", objs) /\ Stay
    \/ \E objs \in ObjectDicts : StartLoop("put_objects", objs) /\ Stay
    \/ \E objs \in ObjectDicts : StartLoop("del_objects", objs) /\ Stay
    \/ LoopStep /\ Stay
    \/ LoopReturn /\ Stay
    \/ BackendFlips /\ Stay

SpecBulk == InitBulk /\ [][NextBulk]_vars

\* The backend after the writes (deletes) of the elements of s, one after the other.
RECURSIVE Replay(_, _, _)
Replay(st, s, method) ==
    IF s = <<>> THEN st
    ELSE Replay(IF method = "del_objects"
                THEN {h \in st : ~SameKey(h, Head(s))}
                ELSE {h \in st : ~SameKey(h, Head(s))} \cup {Head(s)},
                Tail(s), method)

\* C6: put_pkg, put_objects and del_objects handle one element at a time: when
\* the call on an element raises, the method raises that exception, the
\* writes (deletes) of the elements before it stay applied, and no later
\* element is written (deleted); the method returns once every element is done.
C6_LoopStopsAtFirstFailure ==
    (call[1] \in LoopMethods) =>
        /\ store = Replay(store0, done, call[1])
        /\ done \o todo \in Orders(call[2])
        /\ (pc = "idle" /\ IsRaise(ret)) =>
              /\ todo # <<>>
              /\ ret[2] = "Exception" => EmptyFields(Head(todo), MetaFields) # {}
              /\ ret[2] = "NotFoundError" => (call[1] = "del_objects" /\ \A h \in store : ~SameKey(h, Head(todo)))
        /\ (pc = "idle" /\ IsReturn(ret)) => todo = <<>>

C6_Witness ==
    /\ call[1] \in LoopMethods
    /\ pc = "idle"
    /\ IsRaise(ret)
    /\ Len(done) >= 1
    /\ Len(todo) >= 1
    /\ store # store0

-----------------------------------------------------------------------------
(* Export of the dashboards, deletion, and re-import from the files, under   *)
(* SpecRoundTrip: get_objects, write_objects_to_file, del_objects, then      *)
(* read_object_from_file and put_object on every file, then get_objects.     *)

Export ==
    /\ phase = 0
    /\ GetObjects(W("dashboard"))
    /\ saved' = IF IsReturn(ret') THEN ret'[2] ELSE saved
    /\ phase' = IF IsReturn(ret') THEN 1 ELSE 0

WriteFiles ==
    /\ phase = 1
    /\ WriteObjectsToFile(saved)
    /\ phase' = 2
    /\ UNCHANGED saved

DeleteExported ==
    /\ phase = 2
    /\ StartLoop("del_objects", saved)
    /\ phase' = 3
    /\ UNCHANGED saved

\* The objects read from the files of the directory, in some order.
FilesRead(fs) ==
    {List(s) : s \in {q \in [1..Cardinality(DOMAIN fs) -> {read_object_from_file(fs, n) : n \in DOMAIN fs}] :
                        \A n \in DOMAIN fs : \E i \in DOMAIN q : q[i] = read_object_from_file(fs, n)}}

Import ==
    /\ phase = 3
    /\ IsReturn(ret)
    /\ \E objs \in FilesRead(files) : StartLoop("put_pkg", objs)
    /\ phase' = 4
    /\ UNCHANGED saved

Recheck ==
    /\ phase = 4
    /\ IsReturn(ret)
    /\ GetObjects(W("dashboard"))
    /\ phase' = IF IsReturn(ret') THEN 5 ELSE 4
    /\ UNCHANGED saved

RoundTripStores ==
    {da \cup db \cup o :
        da \in {{}} \cup {{Hit(index, W("dashboard"), W("a"), src)} :
                    src \in {Dict([title |-> Str(<<"a", "\"", "\\", "\n">>),
                                   panelsJSON |-> PanelsJSON(ps)]) : ps \in PanelLists}},
        db \in {{}} \cup {{Hit(index, W("dashboard"), W("b"), src)} : src \in {EmptyDict, Titled(W("b"))}},
        o \in SUBSET {Hit(index, W("visualization"), W("a"), Titled(W("a"))),
                      Hit(W("logs"), W("dashboard"), W("a"), Titled(W("c")))}}

InitRoundTrip ==
    /\ store \in RoundTripStores
    /\ indices = IndicesOf(store) \cup {KeyOf(index)}
    /\ up = TRUE
    /\ es = None
    /\ files = <<>>
    /\ call = <<"__init__", None>>
    /\ ret = Returned(None)
    /\ pc = "idle"
    /\ todo = <<>>
    /\ done = <<>>
    /\ store0 = store
    /\ saved = None
    /\ phase = 0

NextRoundTrip ==
    \/ Export
    \/ WriteFiles
    \/ DeleteExported
    \/ LoopStep /\ Stay
    \/ LoopReturn /\ Stay
    \/ Import
    \/ Recheck
    \/ BackendFlips /\ Stay

SpecRoundTrip == InitRoundTrip /\ [][NextRoundTrip]_vars

=============================================================================
